---- MODULE Spec2Model ----
(***************************************************************************)
(* A model of the notebook pipeline: the book aggregator                   *)
(* (export/build_book.py), the markdown -> SSML conversion stage           *)
(* (scripts/convert-to-ssml.py) and the two SSML -> audio synthesis stages *)
(* (scripts/generate-podcast.py, scripts/generate-podcast-kokoro.py).      *)
(*                                                                         *)
(* Text is a sequence of atoms.  An atom is a one-character string, or a   *)
(* longer literal (a title, a description, a fixed template fragment) that *)
(* no operation of the program looks inside.  A path is a sequence of      *)
(* parts, each part a text of one-character atoms.                         *)
(***************************************************************************)
EXTENDS Integers, Sequences, FiniteSets, TLC

(***************************************************************************)
(* Bounds of the model.                                                    *)
(***************************************************************************)
MaxFiles == 3

MaxUnreadable == 1

MaxRuns == 2

MaxItems == 2

MaxTokens == 3

(***************************************************************************)
(* Characters and Python's string primitives.                              *)
(***************************************************************************)
LowerLetters ==
    <<"a","b","c","d","e","f","g","h","i","j","k","l","m",
      "n","o","p","q","r","s","t","u","v","w","x","y","z">>

UpperLetters ==
    <<"A","B","C","D","E","F","G","H","I","J","K","L","M",
      "N","O","P","Q","R","S","T","U","V","W","X","Y","Z">>

\* The characters of the model in code point order (Python compares strings
\* by code point).
CodePointOrder ==
    <<"\t", "\n", " ", "!", "#", "'", "(", ")", "*", "-", ".", "/",
      "0","1","2","3","4","5","6","7","8","9", ":", "<", "=", ">", "?">>
    \o UpperLetters \o <<"[", "]", "_">> \o LowerLetters

CodePoint(c) ==
    CHOOSE i \in 1..Len(CodePointOrder) : CodePointOrder[i] = c

IndexIn(c, s) ==
    CHOOSE i \in 1..Len(s) : s[i] = c

IsIn(c, s) ==
    \E i \in 1..Len(s) : s[i] = c

\* str.upper / str.lower on one character
upper(c) ==
    IF IsIn(c, LowerLetters) THEN UpperLetters[IndexIn(c, LowerLetters)] ELSE c

lower(c) ==
    IF IsIn(c, UpperLetters) THEN LowerLetters[IndexIn(c, UpperLetters)] ELSE c

\* \s of the re module, str.split() and str.strip()
IsSpace(c) ==
    c \in {" ", "\n", "\t"}

Min(a, b) ==
    IF a < b THEN a ELSE b

CharLess(c, d) ==
    CodePoint(c) < CodePoint(d)

\* s < t for two strings: Python compares them code point by code point, a
\* proper prefix being the smaller
StrLess(s, t) ==
    \E i \in 1..(Min(Len(s), Len(t)) + 1) :
        /\ \A j \in 1..(i - 1) : s[j] = t[j]
        /\ \/ i = Len(s) + 1 /\ i <= Len(t)
           \/ i <= Len(s) /\ i <= Len(t) /\ CharLess(s[i], t[i])

\* PurePath.__lt__: paths compare by their parts, part by part
PathLess(p, q) ==
    \E i \in 1..(Min(Len(p), Len(q)) + 1) :
        /\ \A j \in 1..(i - 1) : p[j] = q[j]
        /\ \/ i = Len(p) + 1 /\ i <= Len(q)
           \/ i <= Len(p) /\ i <= Len(q) /\ StrLess(p[i], q[i])

StartsWithAt(s, i, pre) ==
    /\ i + Len(pre) - 1 <= Len(s)
    /\ SubSeq(s, i, i + Len(pre) - 1) = pre

EndsWith(s, suf) ==
    /\ Len(suf) <= Len(s)
    /\ SubSeq(s, Len(s) - Len(suf) + 1, Len(s)) = suf

RECURSIVE ReplaceFrom(_, _, _, _)
ReplaceFrom(s, i, old, new) ==
    IF i > Len(s) THEN <<>>
    ELSE IF StartsWithAt(s, i, old)
         THEN new \o ReplaceFrom(s, i + Len(old), old, new)
         ELSE <<s[i]>> \o ReplaceFrom(s, i + 1, old, new)

\* str.replace(old, new) for a non-empty old: every non-overlapping
\* occurrence, left to right
replace(s, old, new) ==
    ReplaceFrom(s, 1, old, new)

RECURSIVE SplitFrom(_, _, _)
SplitFrom(s, i, word) ==
    IF i > Len(s)
    THEN (IF word = <<>> THEN <<>> ELSE <<word>>)
    ELSE IF IsSpace(s[i])
         THEN (IF word = <<>> THEN <<>> ELSE <<word>>) \o SplitFrom(s, i + 1, <<>>)
         ELSE SplitFrom(s, i + 1, Append(word, s[i]))

\* str.split() with no argument: the runs of non-whitespace
split(s) ==
    SplitFrom(s, 1, <<>>)

\* str.capitalize(): first character upper-cased, the others lower-cased
capitalize(w) ==
    [i \in 1..Len(w) |-> IF i = 1 THEN upper(w[i]) ELSE lower(w[i])]

RECURSIVE join(_, _)
\* sep.join(list)
join(sep, list) ==
    IF list = <<>> THEN <<>>
    ELSE IF Len(list) = 1 THEN list[1]
    ELSE list[1] \o sep \o join(sep, Tail(list))

RECURSIVE lstrip(_)
lstrip(s) ==
    IF s # <<>> /\ IsSpace(Head(s)) THEN lstrip(Tail(s)) ELSE s

RECURSIVE rstrip(_)
rstrip(s) ==
    IF s # <<>> /\ IsSpace(s[Len(s)]) THEN rstrip(SubSeq(s, 1, Len(s) - 1)) ELSE s

\* str.strip()
strip(s) ==
    rstrip(lstrip(s))

Digits ==
    <<"0","1","2","3","4","5","6","7","8","9">>

RECURSIVE str_int(_)
\* str(n) / f"{n}" for a natural number
str_int(n) ==
    IF n < 10 THEN <<Digits[n + 1]>>
    ELSE str_int(n \div 10) \o <<Digits[(n % 10) + 1]>>

\* The stable insertion of path x into the sorted sequence s
InsertPath(x, s) ==
    LET k == Cardinality({i \in 1..Len(s) : ~PathLess(x, s[i])})
    IN  SubSeq(s, 1, k) \o <<x>> \o SubSeq(s, k + 1, Len(s))

RECURSIVE SortPaths(_)
SortPaths(s) ==
    IF s = <<>> THEN <<>>
    ELSE InsertPath(s[Len(s)], SortPaths(SubSeq(s, 1, Len(s) - 1)))

\* sorted() left out: the scan's order is kept
unsorted(s) ==
    s

\* sorted(iterable of Path)
sorted(s) ==
    SortPaths(s)

\* The orders in which a directory scan may enumerate the set S
Enumerations(S) ==
    {f \in [1..Cardinality(S) -> S] : \A i, j \in 1..Cardinality(S) : f[i] = f[j] => i = j}

(***************************************************************************)
(* build_book.py: the Topic Index.                                         *)
(***************************************************************************)
\* TOPIC_ORDER in insertion order (a dict keeps it)
TOPIC_ORDER ==
    << [key |-> <<"b","a","c","k","g","r","o","u","n","d","-","c","o","n","t","e","x","t">>,
        title |-> "Part I: Background & Context",
        description |-> "Historical context and evolution of ASR technology"],
       [key |-> <<"m","o","d","e","l","s">>,
        title |-> "Part II: ASR Models",
        description |-> "Overview and comparison of ASR models"],
       [key |-> <<"d","a","t","a","-","p","r","e","p","a","r","a","t","i","o","n">>,
        title |-> "Part III: Data Preparation",
        description |-> "Audio data preparation and dataset creation"],
       [key |-> <<"f","i","n","e","-","t","u","n","i","n","g">>,
        title |-> "Part IV: Fine-Tuning",
        description |-> "Fine-tuning strategies and techniques"],
       [key |-> <<"i","n","f","e","r","e","n","c","e">>,
        title |-> "Part V: Inference & Deployment",
        description |-> "Running and deploying ASR models"],
       [key |-> <<"a","m","d">>,
        title |-> "Part VI: AMD GPU Optimization",
        description |-> "AMD-specific hardware considerations"],
       [key |-> <<"m","o","b","i","l","e","-","a","s","r">>,
        title |-> "Part VII: Mobile ASR",
        description |-> "Mobile and edge device deployment"],
       [key |-> <<"f","o","r","m","a","t","s">>,
        title |-> "Part VIII: File Formats",
        description |-> "Audio and model file formats"],
       [key |-> <<"v","o","c","a","b">>,
        title |-> "Part IX: Vocabulary & Language",
        description |-> "Vocabulary recognition and language considerations"],
       [key |-> <<"p","i","t","f","a","l","l","s">>,
        title |-> "Part X: Common Pitfalls",
        description |-> "Common issues and how to avoid them"],
       [key |-> <<"q","-","a","n","d","-","a">>,
        title |-> "Part XI: Q&A",
        description |-> "Frequently asked questions"],
       [key |-> <<"n","o","t","e","s">>,
        title |-> "Part XII: Additional Notes",
        description |-> "Supplementary topics and observations"] >>

InsertStr(x, s) ==
    LET k == Cardinality({i \in 1..Len(s) : ~StrLess(x, s[i])})
    IN  SubSeq(s, 1, k) \o <<x>> \o SubSeq(s, k + 1, Len(s))

RECURSIVE SortStrs(_)
SortStrs(s) ==
    IF s = <<>> THEN <<>>
    ELSE InsertStr(s[Len(s)], SortStrs(SubSeq(s, 1, Len(s) - 1)))

\* the topics walked as sorted(TOPIC_ORDER): alphabetical, not index order
TopicKeysAlphabetical ==
    SortStrs([i \in 1..Len(TOPIC_ORDER) |-> TOPIC_ORDER[i].key])

\* TOPIC_ORDER.keys(), in order
TopicKeySeq ==
    [i \in 1..Len(TOPIC_ORDER) |-> TOPIC_ORDER[i].key]

\* the keys as a set: `name in TOPIC_ORDER`
TopicKeys ==
    {TOPIC_ORDER[i].key : i \in 1..Len(TOPIC_ORDER)}

\* the position of a key in the Topic Index
TopicPos(k) ==
    CHOOSE i \in 1..Len(TOPIC_ORDER) : TOPIC_ORDER[i].key = k

\* TOPIC_ORDER[topic_key]
TopicInfo(k) ==
    TOPIC_ORDER[TopicPos(k)]

(***************************************************************************)
(* The content root: the files below the notebook directory.               *)
(***************************************************************************)
DotMd ==
    <<".", "m", "d">>

DirModels ==
    <<"m","o","d","e","l","s">>

DirAmd ==
    <<"a","m","d">>

\* a directory whose name is no Topic Index key
DirDrafts ==
    <<"d","r","a","f","t","s">>

\* The files a content root of the model may hold, as paths relative to the
\* notebook directory: two topics whose Topic Index order is not their
\* alphabetical order, an upper-case name, a file that is no markdown, a
\* directory outside the Topic Index and a file at the root.
PathPool ==
    { <<DirModels, <<"a">> \o DotMd>>,
      <<DirModels, <<"B">> \o DotMd>>,
      <<DirModels, <<"n",".","t","x","t">>>>,
      <<DirAmd, <<"c","-","d">> \o DotMd>>,
      <<DirDrafts, <<"a">> \o DotMd>>,
      << <<"R">> \o DotMd >> }

\* What reading a readable file returns
FileText(p) ==
    IF p = <<DirModels, <<"a">> \o DotMd>>
        THEN <<"#", " ", "T", "\n", "x", "\n", "#", "#", " ", "s", "\n">>
    ELSE IF p = <<DirModels, <<"B">> \o DotMd>>
        THEN <<" ", "y", "\n", "#", "\n", "z">>
    ELSE IF p = <<DirAmd, <<"c","-","d">> \o DotMd>>
        THEN <<"#", "t", "\n", "#", " ", " ", "u">>
    ELSE <<"x">>

ContentRoots ==
    {S \in SUBSET PathPool : Cardinality(S) <= MaxFiles}

VARIABLES
    notebook,         \* the files below the notebook directory
    unreadable,       \* those of them whose open()/read() raises
    scan_order,       \* the order in which this run's directory scans enumerate
    prev_scan,        \* the order in which the run before enumerated
    bpc,              \* build_book.main: where the run is
    run,              \* the number of the run of build_book.main
    organized_files,  \* main's organized_files
    parts,            \* build_master_document's parts, each with the statement that appended it
    master_content,   \* main's master_content
    output_md         \* STT-Fine-Tuning-Guide.md: NoFile or FileOf(its text)

\* convert-to-ssml.py
VARIABLES
    cpc,              \* process_notebook: "idle", "loop", "done" or "crashed"
    md_files,         \* process_notebook's md_files
    ci,               \* the loop's i: the item in turn
    manifest,         \* process_notebook's manifest
    ssml_dir,         \* the .ssml files below podcast-ssml/: path -> text
    manifest_json,    \* podcast-ssml/manifest.json: NoFile or FileOf(manifest)
    llm_calls,        \* the items requests.post was called for, in order
    last_outcome      \* what the environment did to the item just processed

\* generate-podcast.py and generate-podcast-kokoro.py
VARIABLES
    spc,              \* main/process_ssml_directory: where the run is
    backend,          \* which of the two scripts runs: "edge" or "kokoro"
    ffmpeg_present,   \* whether main's `ffmpeg -version` check found ffmpeg
    concatenate,      \* process_ssml_directory's parameter
    ssml_files,       \* process_ssml_directory's ssml_files
    si,               \* the loop's i: the item in turn
    podcast_manifest, \* process_ssml_directory's podcast_manifest
    audio_files,      \* process_ssml_directory's audio_files
    audio_dir,        \* the audio files below podcast-audio/: path -> audio
    individual_json,  \* podcast-audio/individual-files-manifest.json
    podcast_json,     \* podcast-audio/podcast-manifest.json
    concat_list,      \* podcast-audio/concat_list.txt: NoFile or FileOf(its text)
    full_podcast,     \* the combined audio file: NoFile or FileOf(its segments)
    tts_calls,        \* the backend calls made: item and text handed over
    mux_calls         \* the ffmpeg calls made: the list file's text at the call

\* the other of the two scripts run beside this one on the same
\* podcast-ssml/, the service behind it treating every item as this one's does
VARIABLES
    twin_manifest,    \* its podcast_manifest
    twin_audio_files  \* its audio_files

\* strip_ssml_tags and clean_title called on a text of their own
VARIABLES
    fpc,              \* which call has been made: "off", "ready", "stripped", "restripped", "titled"
    fn_input,         \* the function to call and the pieces its argument is made of
    fn_output,        \* what the call returned: NoneVal before it
    fn_again          \* what strip_ssml_tags returned for fn_output: NoneVal before it

\* A file that does not exist, and a file holding a text
NoFile ==
    <<>>

FileOf(text) ==
    <<text>>

bookVars ==
    <<scan_order, prev_scan, bpc, run, organized_files, parts, master_content, output_md>>

rootVars ==
    <<notebook, unreadable>>

fnVars ==
    <<fpc, fn_input, fn_output, fn_again>>

twinVars ==
    <<twin_manifest, twin_audio_files>>

convVars ==
    <<cpc, md_files, ci, manifest, ssml_dir, manifest_json, llm_calls, last_outcome>>

synVars ==
    <<spc, backend, ffmpeg_present, concatenate, ssml_files, si, podcast_manifest,
      audio_files, audio_dir, individual_json, podcast_json, concat_list, full_podcast,
      tts_calls, mux_calls>>

(***************************************************************************)
(* build_book.py: clean_title, collect_files, generate_toc,                *)
(* read_file_content, build_master_document, main.                         *)
(***************************************************************************)
clean_title(filename) ==
    LET title == replace(replace(filename, DotMd, <<>>), <<"-">>, <<" ">>)
        words == split(title)
    IN  join(<<" ">>, [i \in 1..Len(words) |-> capitalize(words[i])])

\* Path.iterdir() of the notebook directory: its immediate entries, in the
\* order of the scan
RECURSIVE FirstParts(_)
FirstParts(scan) ==
    IF scan = <<>> THEN <<>>
    ELSE LET before == FirstParts(SubSeq(scan, 1, Len(scan) - 1))
             name   == scan[Len(scan)][1]
         IN  IF IsIn(name, before) THEN before ELSE Append(before, name)

iterdir(scan) ==
    FirstParts(scan)

\* Path.is_dir() of an entry of the notebook directory
is_dir(name) ==
    \E p \in notebook : Len(p) = 2 /\ p[1] = name

\* topic_dir.glob('*.md'): the markdown files directly inside, in the order
\* of the scan
glob_md(dir, scan) ==
    LET Match(p) == Len(p) = 2 /\ p[1] = dir /\ EndsWith(p[2], DotMd)
    IN  SelectSeq(scan, Match)

\* d[k] = v on a dict
DictSet(d, k, v) ==
    [x \in (DOMAIN d) \cup {k} |-> IF x = k THEN v ELSE d[x]]

\* d.get(k)
DictGet(d, k) ==
    IF k \in DOMAIN d THEN d[k] ELSE <<>>

RECURSIVE CollectLoop(_, _, _)
CollectLoop(entries, scan, organized) ==
    IF entries = <<>> THEN organized
    ELSE LET topic_dir == Head(entries)
         IN  IF is_dir(topic_dir) /\ topic_dir \in TopicKeys
             THEN CollectLoop(Tail(entries), scan,
                              DictSet(organized, topic_dir, sorted(glob_md(topic_dir, scan))))
             ELSE CollectLoop(Tail(entries), scan, organized)

\* collect_files without the `topic_dir.name in TOPIC_ORDER` test
RECURSIVE CollectLoopUnfiltered(_, _, _)
CollectLoopUnfiltered(entries, scan, organized) ==
    IF entries = <<>> THEN organized
    ELSE LET topic_dir == Head(entries)
         IN  IF is_dir(topic_dir)
             THEN CollectLoopUnfiltered(Tail(entries), scan,
                      DictSet(organized, topic_dir, sorted(glob_md(topic_dir, scan))))
             ELSE CollectLoopUnfiltered(Tail(entries), scan, organized)

collect_files_unfiltered(scan) ==
    CollectLoopUnfiltered(iterdir(scan), scan, [topic \in TopicKeys |-> <<>>])

collect_files(scan) ==
    CollectLoop(iterdir(scan), scan, [topic \in TopicKeys |-> <<>>])

\* generate_toc's loop without its `if organized_files.get(topic_key):`
RECURSIVE TocLoopEveryTopic(_, _)
TocLoopEveryTopic(keys, organized) ==
    IF keys = <<>> THEN <<>>
    ELSE LET topic_key == Head(keys)
             topic_info == TopicInfo(topic_key)
             chapter_count == Len(organized[topic_key])
         IN  << <<"*", "*", topic_info.title, "*", "*", " ", " ">>,
                <<topic_info.description, " ", "(">> \o str_int(chapter_count)
                    \o <<" ", "chapters", ")">>,
                <<>> >>
             \o TocLoopEveryTopic(Tail(keys), organized)

RECURSIVE TocLoop(_, _)
TocLoop(keys, organized) ==
    IF keys = <<>> THEN <<>>
    ELSE LET topic_key == Head(keys)
             topic_info == TopicInfo(topic_key)
             chapter_count == Len(organized[topic_key])
         IN  (IF DictGet(organized, topic_key) # <<>>
              THEN << <<"*", "*", topic_info.title, "*", "*", " ", " ">>,
                      <<topic_info.description, " ", "(">> \o str_int(chapter_count)
                          \o <<" ", "chapters", ")">>,
                      <<>> >>
              ELSE <<>>)
             \o TocLoop(Tail(keys), organized)

generate_toc(organized) ==
    join(<<"\n">>,
         << <<"#", " ", "Speech-to-Text Fine-Tuning Guide">>, <<>>,
            <<"_A Comprehensive Guide to ASR Model Fine-Tuning and Deployment_">>, <<>>,
            <<"-", "-", "-">>, <<>>,
            <<"#", "#", " ", "Table of Contents">>, <<>> >>
         \o TocLoop(TopicKeySeq, organized)
         \o << <<"-", "-", "-">>, <<>> >>)

\* str(file_path) of a path globbed under Path('../notebook')
PathStr(p) ==
    <<"../notebook">> \o <<"/">> \o p[1] \o <<"/">> \o p[2]

\* str(e) of the exception open()/read() raises
ErrorText(p) ==
    <<"[Errno 13] Permission denied: ", "'">> \o PathStr(p) \o <<"'">>

\* read_file_content returning the empty text when the read fails
read_file_content_silent(file_path) ==
    IF file_path \in unreadable THEN <<>> ELSE strip(FileText(file_path))

read_file_content(file_path) ==
    IF file_path \in unreadable
    THEN <<"<!-- Error reading ">> \o PathStr(file_path) \o <<":", " ">>
             \o ErrorText(file_path) \o <<" -->">>
    ELSE strip(FileText(file_path))

\* Where a match of ^#\s+.*$ (re.MULTILINE) that starts at i ends: the "#",
\* the longest run of whitespace (a newline is whitespace), then the rest of
\* the line reached
RECURSIVE SpaceEnd(_, _)
SpaceEnd(s, i) ==
    IF i <= Len(s) /\ IsSpace(s[i]) THEN SpaceEnd(s, i + 1) ELSE i

RECURSIVE LineEnd(_, _)
LineEnd(s, i) ==
    IF i <= Len(s) /\ s[i] # "\n" THEN LineEnd(s, i + 1) ELSE i

HeadingAt(s, i) ==
    /\ i = 1 \/ s[i - 1] = "\n"
    /\ s[i] = "#"
    /\ i + 1 <= Len(s)
    /\ IsSpace(s[i + 1])

RECURSIVE HeadingSubFrom(_, _)
HeadingSubFrom(s, i) ==
    IF i > Len(s) THEN <<>>
    ELSE IF HeadingAt(s, i)
         THEN HeadingSubFrom(s, LineEnd(s, SpaceEnd(s, i + 1)))
         ELSE <<s[i]>> \o HeadingSubFrom(s, i + 1)

\* re.sub(r'^#\s+.*$', '', content, flags=re.MULTILINE)
re_sub_heading(content) ==
    HeadingSubFrom(content, 1)

Part(kind, ref, text) ==
    [kind |-> kind, ref |-> ref, text |-> text]

RECURSIVE ChapterParts(_)
ChapterParts(files) ==
    IF files = <<>> THEN <<>>
    ELSE LET file_path == Head(files)
             chapter_title == clean_title(file_path[2])
             content == re_sub_heading(read_file_content(file_path))
         IN  << Part("blank", <<>>, <<>>),
                Part("chapter_header", file_path, <<"#", "#", " ">> \o chapter_title),
                Part("blank", <<>>, <<>>),
                Part("content", file_path, content),
                Part("blank", <<>>, <<>>) >>
             \o ChapterParts(Tail(files))

RECURSIVE TopicParts(_, _)
TopicParts(keys, organized) ==
    IF keys = <<>> THEN <<>>
    ELSE LET topic_key == Head(keys)
             topic_info == TopicInfo(topic_key)
         IN  (IF DictGet(organized, topic_key) = <<>>
              THEN <<>>
              ELSE << Part("blank", <<>>, <<>>),
                      Part("topic_header", topic_key, <<"#", " ", topic_info.title>>),
                      Part("blank", <<>>, <<>>),
                      Part("topic_description", topic_key,
                           <<"_", topic_info.description, "_">>),
                      Part("blank", <<>>, <<>>),
                      Part("rule", <<>>, <<"-", "-", "-">>),
                      Part("blank", <<>>, <<>>) >>
                   \o ChapterParts(organized[topic_key]))
             \o TopicParts(Tail(keys), organized)

\* build_master_document's list `parts` when it returns
BuildParts(organized) ==
    <<Part("toc", <<>>, generate_toc(organized))>> \o TopicParts(TopicKeySeq, organized)

build_master_document(organized) ==
    LET ps == BuildParts(organized)
    IN  join(<<"\n">>, [i \in 1..Len(ps) |-> ps[i].text])

\* main of build_book.py, statement by statement
BookCollect ==
    /\ bpc = "start"
    /\ \E scan \in Enumerations(notebook) :
        /\ scan_order' = scan
        /\ organized_files' = collect_files(scan)
    /\ bpc' = "collected"
    /\ UNCHANGED <<prev_scan, run, parts, master_content, output_md>>
    /\ UNCHANGED rootVars
    /\ UNCHANGED fnVars
    /\ UNCHANGED twinVars
    /\ UNCHANGED convVars
    /\ UNCHANGED synVars

BookBuild ==
    /\ bpc = "collected"
    /\ parts' = BuildParts(organized_files)
    /\ master_content' = build_master_document(organized_files)
    /\ bpc' = "built"
    /\ UNCHANGED <<scan_order, prev_scan, run, organized_files, output_md>>
    /\ UNCHANGED rootVars
    /\ UNCHANGED fnVars
    /\ UNCHANGED twinVars
    /\ UNCHANGED convVars
    /\ UNCHANGED synVars

BookWrite ==
    /\ bpc = "built"
    /\ output_md' = FileOf(master_content)
    /\ bpc' = "done"
    /\ UNCHANGED <<scan_order, prev_scan, run, organized_files, parts, master_content>>
    /\ UNCHANGED rootVars
    /\ UNCHANGED fnVars
    /\ UNCHANGED twinVars
    /\ UNCHANGED convVars
    /\ UNCHANGED synVars

\* build_book.py is run again on the content root as it is
BookRerun ==
    /\ bpc = "done"
    /\ run < MaxRuns
    /\ run' = run + 1
    /\ bpc' = "start"
    /\ prev_scan' = scan_order
    /\ scan_order' = <<>>
    /\ organized_files' = <<>>
    /\ parts' = <<>>
    /\ master_content' = <<>>
    /\ UNCHANGED output_md
    /\ UNCHANGED rootVars
    /\ UNCHANGED fnVars
    /\ UNCHANGED twinVars
    /\ UNCHANGED convVars
    /\ UNCHANGED synVars

(***************************************************************************)
(* convert-to-ssml.py: convert_to_ssml, process_notebook.                  *)
(***************************************************************************)
DotSsml ==
    <<".", "s", "s", "m", "l">>

\* The markdown files of the pipeline's content roots: two topics whose
\* path order is not their Topic Index order, a directory outside the Topic
\* Index and a file at the root.
ItemPool ==
    { <<DirModels, <<"a">> \o DotMd>>,
      <<DirAmd, <<"c","-","d">> \o DotMd>>,
      <<DirDrafts, <<"a">> \o DotMd>>,
      << <<"R">> \o DotMd >> }

PipelineRoots ==
    {S \in SUBSET ItemPool : Cardinality(S) <= MaxItems}

SsmlHi ==
    <<"<","s","p","e","a","k",">","h","i","<","/","s","p","e","a","k",">">>

SsmlBreakOnly ==
    <<"<","s","p","e","a","k",">","<","b","r","e","a","k","/",">",
      "<","/","s","p","e","a","k",">">>

\* result['choices'][0]['message']['content'] of a well-formed response
LLMPayload(p) ==
    IF p = << <<"R">> \o DotMd >> THEN <<>>
    ELSE IF p = <<DirAmd, <<"c","-","d">> \o DotMd>> THEN SsmlBreakOnly
    ELSE SsmlHi

\* A value that may be None
NoneVal ==
    <<>>

Some(x) ==
    <<x>>

\* `if x:` for x a string or None
Truthy(x) ==
    x # NoneVal /\ x[1] # <<>>

\* PurePath.stem
stem(name) ==
    LET dots == {i \in 1..Len(name) : name[i] = "."}
        last == CHOOSE i \in dots : \A j \in dots : j <= i
    IN  IF dots # {} /\ 1 < last /\ last < Len(name)
        THEN SubSeq(name, 1, last - 1)
        ELSE name

\* rel_path.parent / f"{md_file.stem}{suffix}"
WithSuffix(rel_path, suffix) ==
    SubSeq(rel_path, 1, Len(rel_path) - 1) \o <<stem(rel_path[Len(rel_path)]) \o suffix>>

\* str(path)
str_path(p) ==
    join(<<"/">>, p)

\* dir.rglob("*" + suffix): the files at any depth whose name matches, in
\* the order of the scan
rglob(scan, suffix) ==
    LET Match(p) == EndsWith(p[Len(p)], suffix)
    IN  SelectSeq(scan, Match)

\* the call made again when it failed
CallWithRetry(calls, call, failed) ==
    IF failed THEN Append(Append(calls, call), call) ELSE Append(calls, call)

\* the one requests.post / subprocess.run of an item: the call joins the
\* calls made, whether it failed or not
CallOnce(calls, call, failed) ==
    Append(calls, call)

\* What requests.post and the response can do
ResponseKinds ==
    {"connection_error", "timeout", "http_error", "malformed_json", "json_without_payload", "payload"}

\* convert_to_ssml reaches its `except requests.exceptions.RequestException`.
\* response.json() on a body that is no JSON raises a RequestException in
\* requests >= 2.27 (json_wrapped) and a plain ValueError before.
RequestExceptionCaught(kind, json_wrapped) ==
    \/ kind \in {"connection_error", "timeout", "http_error"}
    \/ kind = "malformed_json" /\ json_wrapped

\* an exception leaves convert_to_ssml: the KeyError, IndexError or TypeError
\* of result['choices'][0]['message']['content'], or the ValueError of
\* response.json()
ConvertRaises(kind, json_wrapped) ==
    \/ kind = "json_without_payload"
    \/ kind = "malformed_json" /\ ~json_wrapped

\* what convert_to_ssml returns when it returns
convert_to_ssml(kind, json_wrapped, payload) ==
    IF RequestExceptionCaught(kind, json_wrapped) THEN NoneVal ELSE Some(payload)

WriteOutcomes ==
    {"ok", "open_error", "write_error"}

\* process_notebook, up to the loop
ConvStart ==
    /\ cpc = "idle"
    /\ spc = "idle"
    /\ \E scan \in Enumerations(notebook) :
           md_files' = sorted(rglob(scan, DotMd))
    /\ manifest' = [total_files |-> Cardinality({p \in notebook : EndsWith(p[Len(p)], DotMd)}),
                    files |-> <<>>]
    /\ ci' = 1
    /\ cpc' = "loop"
    /\ UNCHANGED <<ssml_dir, manifest_json, llm_calls, last_outcome>>
    /\ UNCHANGED rootVars
    /\ UNCHANGED fnVars
    /\ UNCHANGED twinVars
    /\ UNCHANGED bookVars
    /\ UNCHANGED synVars

\* one round of process_notebook's loop
ConvItem ==
    /\ cpc = "loop"
    /\ ci <= Len(md_files)
    /\ LET md_file == md_files[ci]
           rel_path == md_file
           ssml_file == WithSuffix(rel_path, DotSsml)
       IN  \/ /\ md_file \in unreadable
              /\ last_outcome' = "read_error"
              /\ ci' = ci + 1
              /\ UNCHANGED <<cpc, manifest, ssml_dir, llm_calls>>
           \/ /\ md_file \notin unreadable
              /\ \E kind \in ResponseKinds, json_wrapped \in BOOLEAN :
                     /\ llm_calls' = CallOnce(llm_calls, str_path(rel_path), kind # "payload")
                     /\ IF ConvertRaises(kind, json_wrapped)
                        THEN /\ cpc' = "crashed"
                             /\ last_outcome' = kind
                             /\ UNCHANGED <<ci, manifest, ssml_dir>>
                        ELSE /\ ci' = ci + 1
                             /\ UNCHANGED cpc
                             /\ LET ssml_content ==
                                        convert_to_ssml(kind, json_wrapped, LLMPayload(md_file))
                                IN  IF Truthy(ssml_content)
                                    THEN \E write \in WriteOutcomes :
                                          /\ last_outcome' = write
                                          /\ ssml_dir' =
                                                 IF write = "ok"
                                                 THEN DictSet(ssml_dir, ssml_file, ssml_content[1])
                                                 ELSE IF write = "write_error"
                                                 THEN DictSet(ssml_dir, ssml_file, <<>>)
                                                 ELSE ssml_dir
                                          /\ manifest' =
                                                 [manifest EXCEPT !.files = Append(@,
                                                     IF write = "ok"
                                                     THEN [source |-> str_path(rel_path),
                                                           output |-> str_path(ssml_file),
                                                           status |-> "success"]
                                                     ELSE [source |-> str_path(rel_path),
                                                           output |-> str_path(ssml_file),
                                                           status |-> "error",
                                                           error |-> <<"[Errno 28] No space left on device">>])]
                                    ELSE /\ last_outcome' =
                                                (IF kind = "payload" THEN "empty_payload" ELSE kind)
                                         /\ manifest' =
                                                [manifest EXCEPT !.files = Append(@,
                                                    [source |-> str_path(rel_path),
                                                     status |-> "conversion_failed"])]
                                         /\ UNCHANGED ssml_dir
    /\ UNCHANGED <<md_files, manifest_json>>
    /\ UNCHANGED rootVars
    /\ UNCHANGED fnVars
    /\ UNCHANGED twinVars
    /\ UNCHANGED bookVars
    /\ UNCHANGED synVars

\* process_notebook after the loop: the manifest is saved
ConvSave ==
    /\ cpc = "loop"
    /\ ci > Len(md_files)
    /\ manifest_json' = FileOf(manifest)
    /\ cpc' = "done"
    /\ last_outcome' = "none"
    /\ UNCHANGED <<md_files, ci, manifest, ssml_dir, llm_calls>>
    /\ UNCHANGED rootVars
    /\ UNCHANGED fnVars
    /\ UNCHANGED twinVars
    /\ UNCHANGED bookVars
    /\ UNCHANGED synVars

(***************************************************************************)
(* generate-podcast-kokoro.py: strip_ssml_tags.                            *)
(***************************************************************************)
\* re.sub(prefix + r'[^>]*>', repl, s), and with question = TRUE
\* re.sub(prefix + r'[^>]*\?>', repl, s): [^>]* stops at the first ">", so a
\* match ends there, and the second pattern needs a "?" right before it
RECURSIVE TagSubFrom(_, _, _, _, _)
TagSubFrom(s, i, prefix, question, repl) ==
    IF i > Len(s) THEN <<>>
    ELSE LET from == i + Len(prefix)
             closes == {j \in from..Len(s) : s[j] = ">"}
             close == CHOOSE j \in closes : \A k \in closes : j <= k
         IN  IF /\ StartsWithAt(s, i, prefix)
                /\ closes # {}
                /\ question => (close > from /\ s[close - 1] = "?")
             THEN repl \o TagSubFrom(s, close + 1, prefix, question, repl)
             ELSE <<s[i]>> \o TagSubFrom(s, i + 1, prefix, question, repl)

re_sub_tag(prefix, question, repl, s) ==
    TagSubFrom(s, 1, prefix, question, repl)

RECURSIVE CollapseFrom(_, _)
CollapseFrom(s, i) ==
    IF i > Len(s) THEN <<>>
    ELSE IF IsSpace(s[i])
         THEN <<" ">> \o CollapseFrom(s, SpaceEnd(s, i))
         ELSE <<s[i]>> \o CollapseFrom(s, i + 1)

\* re.sub(r'\s+', '', s): the whitespace removed, not collapsed
re_sub_spaces_removed(s) ==
    SelectSeq(s, LAMBDA c : ~IsSpace(c))

\* re.sub(r'\s+', ' ', s)
re_sub_spaces(s) ==
    CollapseFrom(s, 1)

\* strip_ssml_tags with its break tags replaced by '' as the other tags are
strip_ssml_tags_breaks_dropped(ssml_content) ==
    LET t1  == re_sub_tag(<<"<","?","x","m","l">>, TRUE, <<>>, ssml_content)
        t2  == re_sub_tag(<<"<","s","p","e","a","k">>, FALSE, <<>>, t1)
        t3  == replace(t2, <<"<","/","s","p","e","a","k",">">>, <<>>)
        t4  == re_sub_tag(<<"<","b","r","e","a","k">>, FALSE, <<>>, t3)
        t5  == re_sub_tag(<<"<","p","r","o","s","o","d","y">>, FALSE, <<>>, t4)
        t6  == replace(t5, <<"<","/","p","r","o","s","o","d","y",">">>, <<>>)
        t7  == re_sub_tag(<<"<","e","m","p","h","a","s","i","s">>, FALSE, <<>>, t6)
        t8  == replace(t7, <<"<","/","e","m","p","h","a","s","i","s",">">>, <<>>)
        t9  == re_sub_tag(<<"<","s","a","y","-","a","s">>, FALSE, <<>>, t8)
        t10 == replace(t9, <<"<","/","s","a","y","-","a","s",">">>, <<>>)
        t11 == replace(t10, <<"<","p",">">>, <<"\n","\n">>)
        t12 == replace(t11, <<"<","/","p",">">>, <<"\n","\n">>)
    IN  strip(re_sub_spaces(t12))

strip_ssml_tags(ssml_content) ==
    LET t1  == re_sub_tag(<<"<","?","x","m","l">>, TRUE, <<>>, ssml_content)
        t2  == re_sub_tag(<<"<","s","p","e","a","k">>, FALSE, <<>>, t1)
        t3  == replace(t2, <<"<","/","s","p","e","a","k",">">>, <<>>)
        t4  == re_sub_tag(<<"<","b","r","e","a","k">>, FALSE, <<" ">>, t3)
        t5  == re_sub_tag(<<"<","p","r","o","s","o","d","y">>, FALSE, <<>>, t4)
        t6  == replace(t5, <<"<","/","p","r","o","s","o","d","y",">">>, <<>>)
        t7  == re_sub_tag(<<"<","e","m","p","h","a","s","i","s">>, FALSE, <<>>, t6)
        t8  == replace(t7, <<"<","/","e","m","p","h","a","s","i","s",">">>, <<>>)
        t9  == re_sub_tag(<<"<","s","a","y","-","a","s">>, FALSE, <<>>, t8)
        t10 == replace(t9, <<"<","/","s","a","y","-","a","s",">">>, <<>>)
        t11 == replace(t10, <<"<","p",">">>, <<"\n","\n">>)
        t12 == replace(t11, <<"<","/","p",">">>, <<"\n","\n">>)
    IN  strip(re_sub_spaces(t12))

(***************************************************************************)
(* generate-podcast.py / generate-podcast-kokoro.py: convert_ssml_to_audio,*)
(* convert_ssml_to_audio_kokoro, concatenate_audio_files,                  *)
(* process_ssml_directory, main.                                           *)
(***************************************************************************)
Backends ==
    {"edge", "kokoro"}

DotMp3 ==
    <<".", "m", "p", "3">>

DotWav ==
    <<".", "w", "a", "v">>

\* the suffix of the script's audio files
AudioSuffix(b) ==
    IF b = "edge" THEN DotMp3 ELSE DotWav

\* str(OUTPUT_DIR), the absolute path of podcast-audio/
OUTPUT_DIR ==
    <<"/repo/podcast-audio">>

\* str(audio_file.absolute()) of a path below OUTPUT_DIR
AbsStr(rel) ==
    OUTPUT_DIR \o <<"/">> \o str_path(rel)

\* the audio a backend makes of a text
Audio(text) ==
    [narration |-> text]

\* What reading the SSML file and running edge-tts can do
EdgeOutcomes ==
    {"read_error", "returncode_0", "returncode_nonzero", "timeout", "exception"}

\* convert_ssml_to_audio: whether edge-tts was run, on which text, and the
\* value returned
convert_ssml_to_audio(ssml_content, outcome) ==
    [called  |-> outcome # "read_error",
     text    |-> ssml_content,
     success |-> outcome = "returncode_0"]

\* What reading the SSML file, the Hugging Face call and saving the audio
\* can do
KokoroOutcomes ==
    {"read_error", "request_exception", "status_200", "status_other", "write_error"}

\* convert_ssml_to_audio_kokoro without its `if not text: return False`
convert_ssml_to_audio_kokoro_unguarded(ssml_content, outcome) ==
    LET text == strip_ssml_tags(ssml_content)
    IN  [called  |-> outcome # "read_error",
         text    |-> text,
         success |-> outcome = "status_200"]

\* convert_ssml_to_audio_kokoro: whether the API was called, on which text,
\* and the value returned
convert_ssml_to_audio_kokoro(ssml_content, outcome) ==
    LET text == strip_ssml_tags(ssml_content)
    IN  [called  |-> outcome # "read_error" /\ text # <<>>,
         text    |-> text,
         success |-> outcome = "status_200" /\ text # <<>>]

\* the text concatenate_audio_files writes to concat_list.txt
RECURSIVE ListText(_)
ListText(files) ==
    IF files = <<>> THEN <<>>
    ELSE <<"file ", "'">> \o AbsStr(Head(files)) \o <<"'", "\n">> \o ListText(Tail(files))

\* the lines of a text that ends each line with "\n"
RECURSIVE Lines(_)
Lines(text) ==
    IF text = <<>> THEN <<>>
    ELSE LET e == LineEnd(text, 1)
         IN  <<SubSeq(text, 1, e - 1)>> \o Lines(SubSeq(text, e + 1, Len(text)))

\* the paths ffmpeg's concat demuxer reads from the list: file '<path>'
ListedPaths(text) ==
    LET ls == Lines(text)
    IN  [i \in 1..Len(ls) |-> SubSeq(ls[i], 3, Len(ls[i]) - 1)]

\* the audio file of podcast-audio/ with that absolute path
AudioAt(abs) ==
    audio_dir[CHOOSE p \in DOMAIN audio_dir : AbsStr(p) = abs]

\* `ffmpeg -f concat -c copy`: the segments of the listed files, in order
Muxed(text) ==
    LET ps == ListedPaths(text)
    IN  [i \in 1..Len(ps) |-> AudioAt(ps[i])]

MuxOutcomes ==
    {"returncode_0", "returncode_nonzero", "exception"}

\* The text of a manifest.json that json.load cannot parse: what a run of
\* convert-to-ssml.py interrupted inside json.dump leaves behind
TruncatedJson ==
    [truncated |-> TRUE]

\* the loading that never stops the run: neither the sys.exit(1) of a
\* missing manifest.json nor the exception of json.load
ManifestLoadsAlways(file) ==
    TRUE

\* `manifest_file.exists()` holds and json.load(f) returns
ManifestLoads(file) ==
    file # NoFile /\ file[1] # TruncatedJson

\* main up to process_ssml_directory's loop.  A missing manifest.json is a
\* sys.exit(1); a manifest.json that is no JSON makes json.load raise, which
\* nothing catches; both end the run here.
SynStart ==
    /\ spc = "idle"
    /\ cpc # "loop"
    /\ \E b \in Backends, ffmpeg \in BOOLEAN, no_concatenate \in BOOLEAN :
        /\ backend' = b
        /\ ffmpeg_present' = ffmpeg
        /\ concatenate' = (~no_concatenate /\ ffmpeg)
        /\ IF ~ManifestLoads(manifest_json)
           THEN /\ spc' = (IF manifest_json = NoFile THEN "exited" ELSE "crashed")
                /\ UNCHANGED <<ssml_files, podcast_manifest>>
           ELSE \E scan \in Enumerations(DOMAIN ssml_dir) :
                    LET found == sorted(rglob(scan, DotSsml))
                    IN  IF found = <<>>
                        THEN /\ spc' = "exited"
                             /\ UNCHANGED <<ssml_files, podcast_manifest>>
                        ELSE /\ spc' = "loop"
                             /\ ssml_files' = found
                             /\ podcast_manifest' =
                                    [engine |-> b, total_files |-> Len(found), files |-> <<>>]
    /\ UNCHANGED <<si, audio_files, audio_dir, individual_json, podcast_json, concat_list,
                   full_podcast, tts_calls, mux_calls>>
    /\ UNCHANGED rootVars
    /\ UNCHANGED fnVars
    /\ UNCHANGED twinVars
    /\ UNCHANGED bookVars
    /\ UNCHANGED convVars

\* the loop recording successes only: a failed item gets no entry
RecordSuccessOnly(pm, rel_path, audio_file, success) ==
    IF success
    THEN [pm EXCEPT !.files = Append(@,
             [ssml_source |-> str_path(rel_path),
              audio_output |-> str_path(audio_file),
              status |-> "success"])]
    ELSE pm

\* podcast_manifest["files"].append(...) for the item's result
RecordResult(pm, rel_path, audio_file, success) ==
    [pm EXCEPT !.files = Append(@,
        IF success
        THEN [ssml_source |-> str_path(rel_path),
              audio_output |-> str_path(audio_file),
              status |-> "success"]
        ELSE [ssml_source |-> str_path(rel_path),
              status |-> "failed"])]

\* audio_files.append(audio_file) moved out of `if success:`
CollectAudioAlways(files, audio_file, success) ==
    Append(files, audio_file)

\* audio_files.append(audio_file) when the item succeeded
CollectAudio(files, audio_file, success) ==
    IF success THEN Append(files, audio_file) ELSE files

\* the other script
OtherBackend(b) ==
    IF b = "edge" THEN "kokoro" ELSE "edge"

\* what the other script's service does to the item when this one's does
\* `outcome`: the file is unreadable for both, success for success,
\* failure for failure
TwinOutcome(outcome) ==
    CASE outcome = "read_error" -> "read_error"
      [] outcome = "returncode_0" -> "status_200"
      [] outcome = "status_200" -> "returncode_0"
      [] outcome = "returncode_nonzero" -> "status_other"
      [] outcome = "status_other" -> "returncode_nonzero"
      [] outcome = "timeout" -> "request_exception"
      [] outcome = "request_exception" -> "timeout"
      [] outcome = "exception" -> "request_exception"
      [] outcome = "write_error" -> "exception"

\* one round of process_ssml_directory's loop
SynItem ==
    /\ spc = "loop"
    /\ si <= Len(ssml_files)
    /\ LET ssml_file == ssml_files[si]
           rel_path == ssml_file
           audio_file == WithSuffix(rel_path, AudioSuffix(backend))
       IN  \E outcome \in (IF backend = "edge" THEN EdgeOutcomes ELSE KokoroOutcomes) :
             LET r == IF backend = "edge"
                      THEN convert_ssml_to_audio(ssml_dir[ssml_file], outcome)
                      ELSE convert_ssml_to_audio_kokoro(ssml_dir[ssml_file], outcome)
             IN  /\ last_outcome' =
                        (IF outcome # "read_error" /\ ~r.called THEN "empty_text" ELSE outcome)
                 /\ tts_calls' =
                        IF r.called
                        THEN CallOnce(tts_calls, [item |-> str_path(rel_path), text |-> r.text],
                                      ~r.success)
                        ELSE tts_calls
                 /\ audio_dir' =
                        IF r.success THEN DictSet(audio_dir, audio_file, Audio(r.text))
                        ELSE audio_dir
                 /\ audio_files' = CollectAudio(audio_files, audio_file, r.success)
                 /\ podcast_manifest' =
                        RecordResult(podcast_manifest, rel_path, audio_file, r.success)
                 /\ LET other == OtherBackend(backend)
                        twin_file == WithSuffix(rel_path, AudioSuffix(other))
                        tr == IF other = "edge"
                              THEN convert_ssml_to_audio(ssml_dir[ssml_file], TwinOutcome(outcome))
                              ELSE convert_ssml_to_audio_kokoro(ssml_dir[ssml_file],
                                                                TwinOutcome(outcome))
                    IN  /\ twin_manifest' =
                               RecordResult(twin_manifest, rel_path, twin_file, tr.success)
                        /\ twin_audio_files' =
                               CollectAudio(twin_audio_files, twin_file, tr.success)
    /\ si' = si + 1
    /\ UNCHANGED <<spc, backend, ffmpeg_present, concatenate, ssml_files, individual_json,
                   podcast_json, concat_list, full_podcast, mux_calls>>
    /\ UNCHANGED rootVars
    /\ UNCHANGED fnVars
    /\ UNCHANGED bookVars
    /\ UNCHANGED <<cpc, md_files, ci, manifest, ssml_dir, manifest_json, llm_calls>>

\* the loop ending with individual-files-manifest.json left unwritten
save_individual_manifest_skipped(pm) ==
    NoFile

\* `with open(individual_manifest_path, 'w') as f: json.dump(podcast_manifest, f)`
save_individual_manifest(pm) ==
    FileOf(pm)

\* after the loop: the individual files manifest is saved
SynSave ==
    /\ spc = "loop"
    /\ si > Len(ssml_files)
    /\ individual_json' = save_individual_manifest(podcast_manifest)
    /\ spc' = "saved"
    /\ last_outcome' = "none"
    /\ UNCHANGED <<backend, ffmpeg_present, concatenate, ssml_files, si, podcast_manifest,
                   audio_files, audio_dir, podcast_json, concat_list, full_podcast,
                   tts_calls, mux_calls>>
    /\ UNCHANGED rootVars
    /\ UNCHANGED fnVars
    /\ UNCHANGED twinVars
    /\ UNCHANGED bookVars
    /\ UNCHANGED <<cpc, md_files, ci, manifest, ssml_dir, manifest_json, llm_calls>>

\* `if concatenate:`, the guard without its test of audio_files
ConcatenationWantedOnly(conc, files) ==
    conc

\* `if concatenate and audio_files:`
ConcatenationDue(conc, files) ==
    conc /\ files # <<>>

\* the finally clause leaving concat_list.txt where it is
finally_keep(list_file) ==
    list_file

\* the finally clause of concatenate_audio_files:
\* `if file_list_path.exists(): file_list_path.unlink()`
finally_unlink(list_file) ==
    NoFile

\* `if concatenate and audio_files:` is false: the run ends
SynNoConcat ==
    /\ spc = "saved"
    /\ ~ConcatenationDue(concatenate, audio_files)
    /\ spc' = "done"
    /\ UNCHANGED <<backend, ffmpeg_present, concatenate, ssml_files, si, podcast_manifest,
                   audio_files, audio_dir, individual_json, podcast_json, concat_list,
                   full_podcast, tts_calls, mux_calls>>
    /\ UNCHANGED rootVars
    /\ UNCHANGED fnVars
    /\ UNCHANGED twinVars
    /\ UNCHANGED bookVars
    /\ UNCHANGED convVars

\* concatenate_audio_files: the list file is written.  When writing raises,
\* the except clause returns False and the finally clause removes the file.
SynConcatList ==
    /\ spc = "saved"
    /\ ConcatenationDue(concatenate, audio_files)
    /\ \E written \in BOOLEAN :
        IF written
        THEN /\ concat_list' = FileOf(ListText(audio_files))
             /\ spc' = "listed"
             /\ last_outcome' = "none"
        ELSE /\ concat_list' = finally_unlink(FileOf(<<>>))
             /\ spc' = "done"
             /\ last_outcome' = "list_write_error"
    /\ UNCHANGED <<backend, ffmpeg_present, concatenate, ssml_files, si, podcast_manifest,
                   audio_files, audio_dir, individual_json, podcast_json, full_podcast,
                   tts_calls, mux_calls>>
    /\ UNCHANGED rootVars
    /\ UNCHANGED fnVars
    /\ UNCHANGED twinVars
    /\ UNCHANGED bookVars
    /\ UNCHANGED <<cpc, md_files, ci, manifest, ssml_dir, manifest_json, llm_calls>>

\* concatenate_audio_files: ffmpeg runs, the finally clause removes the list
\* file, the function returns
SynMux ==
    /\ spc = "listed"
    /\ \E outcome \in MuxOutcomes :
        /\ last_outcome' = outcome
        /\ mux_calls' = Append(mux_calls, concat_list[1])
        /\ IF outcome = "returncode_0"
           THEN /\ full_podcast' = FileOf(Muxed(concat_list[1]))
                /\ spc' = "concatenated"
           ELSE /\ UNCHANGED full_podcast
                /\ spc' = "done"
    /\ concat_list' = finally_unlink(concat_list)
    /\ UNCHANGED <<backend, ffmpeg_present, concatenate, ssml_files, si, podcast_manifest,
                   audio_files, audio_dir, individual_json, podcast_json, tts_calls>>
    /\ UNCHANGED rootVars
    /\ UNCHANGED fnVars
    /\ UNCHANGED twinVars
    /\ UNCHANGED bookVars
    /\ UNCHANGED <<cpc, md_files, ci, manifest, ssml_dir, manifest_json, llm_calls>>

\* the full_podcast record counting every entry of the manifest as a track
WithFullPodcastCountingAll(pm, b, combined, files) ==
    [x \in (DOMAIN pm) \cup {"full_podcast"} |->
        IF x = "full_podcast"
        THEN [file |-> <<"stt-finetune-podcast">> \o AudioSuffix(b),
              size_mb |-> Len(combined),
              track_count |-> Len(pm.files)]
        ELSE pm[x]]

\* podcast_manifest["full_podcast"] = {"file": ..., "size_mb": ...,
\* "track_count": len(audio_files)}
WithFullPodcast(pm, b, combined, files) ==
    [x \in (DOMAIN pm) \cup {"full_podcast"} |->
        IF x = "full_podcast"
        THEN [file |-> <<"stt-finetune-podcast">> \o AudioSuffix(b),
              size_mb |-> Len(combined),
              track_count |-> Len(files)]
        ELSE pm[x]]

\* concatenate_audio_files returned True: the manifest gets its full_podcast
\* record and is saved as podcast-manifest.json
SynFinal ==
    /\ spc = "concatenated"
    /\ podcast_manifest' =
           WithFullPodcast(podcast_manifest, backend, full_podcast[1], audio_files)
    /\ podcast_json' = FileOf(podcast_manifest')
    /\ spc' = "done"
    /\ UNCHANGED <<backend, ffmpeg_present, concatenate, ssml_files, si, audio_files,
                   audio_dir, individual_json, concat_list, full_podcast, tts_calls,
                   mux_calls>>
    /\ UNCHANGED rootVars
    /\ UNCHANGED fnVars
    /\ UNCHANGED twinVars
    /\ UNCHANGED bookVars
    /\ UNCHANGED convVars

RootInit ==
    /\ notebook \in ContentRoots
    /\ unreadable \in {U \in SUBSET notebook : Cardinality(U) <= MaxUnreadable}

BookVarsInit ==
    /\ scan_order = <<>>
    /\ prev_scan = <<>>
    /\ bpc = "start"
    /\ run = 1
    /\ organized_files = <<>>
    /\ parts = <<>>
    /\ master_content = <<>>
    /\ output_md = NoFile

vars ==
    <<notebook, unreadable, scan_order, prev_scan, bpc, run, organized_files, parts,
      master_content, output_md,
      cpc, md_files, ci, manifest, ssml_dir, manifest_json, llm_calls, last_outcome,
      spc, backend, ffmpeg_present, concatenate, ssml_files, si, podcast_manifest,
      audio_files, audio_dir, individual_json, podcast_json, concat_list, full_podcast,
      tts_calls, mux_calls,
      fpc, fn_input, fn_output, fn_again,
      twin_manifest, twin_audio_files>>

\* no call of the text functions on their own
FnVarsOff ==
    /\ fpc = "off"
    /\ fn_input = [fn |-> "none", pieces |-> <<>>]
    /\ fn_output = <<>>
    /\ fn_again = <<>>

ConvVarsInit ==
    /\ cpc = "idle"
    /\ md_files = <<>>
    /\ ci = 1
    /\ manifest = [total_files |-> 0, files |-> <<>>]
    /\ ssml_dir = <<>>
    /\ manifest_json = NoFile
    /\ llm_calls = <<>>
    /\ last_outcome = "none"

SynVarsInit ==
    /\ spc = "idle"
    /\ backend = "none"
    /\ ffmpeg_present = FALSE
    /\ concatenate = FALSE
    /\ ssml_files = <<>>
    /\ si = 1
    /\ podcast_manifest = [engine |-> "none", total_files |-> 0, files |-> <<>>]
    /\ audio_files = <<>>
    /\ audio_dir = <<>>
    /\ individual_json = NoFile
    /\ podcast_json = NoFile
    /\ concat_list = NoFile
    /\ full_podcast = NoFile
    /\ tts_calls = <<>>
    /\ mux_calls = <<>>
    /\ twin_manifest = [files |-> <<>>]
    /\ twin_audio_files = <<>>

\* What an earlier run of convert-to-ssml.py, on a notebook that held
\* old/z.md, left in podcast-ssml/
StaleSsml ==
    << <<"o","l","d">>, <<"z">> \o DotSsml >>

EarlierManifest ==
    [total_files |-> 1,
     files |-> << [source |-> <<"o","l","d","/","z">> \o DotMd,
                   output |-> str_path(StaleSsml),
                   status |-> "success"] >>]

BookInit ==
    /\ RootInit
    /\ BookVarsInit
    /\ ConvVarsInit
    /\ SynVarsInit
    /\ FnVarsOff

Init ==
    /\ notebook \in PipelineRoots
    /\ unreadable \in {U \in SUBSET notebook : Cardinality(U) <= MaxUnreadable}
    /\ BookVarsInit
    /\ cpc = "idle"
    /\ md_files = <<>>
    /\ ci = 1
    /\ manifest = [total_files |-> 0, files |-> <<>>]
    /\ \/ ssml_dir = <<>> /\ manifest_json = NoFile
       \/ /\ ssml_dir = DictSet(<<>>, StaleSsml, SsmlHi)
          /\ manifest_json \in {FileOf(EarlierManifest), FileOf(TruncatedJson), NoFile}
    /\ llm_calls = <<>>
    /\ last_outcome = "none"
    /\ SynVarsInit
    /\ FnVarsOff

Next ==
    \/ ConvStart
    \/ ConvItem
    \/ ConvSave
    \/ SynStart
    \/ SynItem
    \/ SynSave
    \/ SynNoConcat
    \/ SynConcatList
    \/ SynMux
    \/ SynFinal

Spec ==
    Init /\ [][Next]_vars

BookNext ==
    \/ BookCollect
    \/ BookBuild
    \/ BookWrite
    \/ BookRerun

BookSpec ==
    BookInit /\ [][BookNext]_vars

(***************************************************************************)
(* strip_ssml_tags and clean_title called on texts of their own.  A text   *)
(* is made of pieces; a word and the attributes of a tag are one element   *)
(* each, every other character is an element of its own.                   *)
(***************************************************************************)
Piece(kind, text) ==
    [kind |-> kind, text |-> text]

XmlDecl ==
    Piece("wrapper", <<"<","?","x","m","l"," version=\"1.0\"","?",">">>)

SpeakOpen ==
    Piece("wrapper", <<"<","s","p","e","a","k",">">>)

SpeakClose ==
    Piece("wrapper", <<"<","/","s","p","e","a","k",">">>)

BreakTag ==
    Piece("break", <<"<","b","r","e","a","k"," time=\"500ms\"","/",">">>)

ProsodyOpen ==
    Piece("wrapper", <<"<","p","r","o","s","o","d","y"," rate=\"slow\"",">">>)

ProsodyClose ==
    Piece("wrapper", <<"<","/","p","r","o","s","o","d","y",">">>)

EmphasisOpen ==
    Piece("wrapper", <<"<","e","m","p","h","a","s","i","s"," level=\"moderate\"",">">>)

EmphasisClose ==
    Piece("wrapper", <<"<","/","e","m","p","h","a","s","i","s",">">>)

SayAsOpen ==
    Piece("wrapper", <<"<","s","a","y","-","a","s"," interpret-as=\"characters\"",">">>)

SayAsClose ==
    Piece("wrapper", <<"<","/","s","a","y","-","a","s",">">>)

POpen ==
    Piece("para", <<"<","p",">">>)

PClose ==
    Piece("para", <<"<","/","p",">">>)

Blank ==
    Piece("space", <<" ">>)

Newline ==
    Piece("space", <<"\n">>)

Word(w) ==
    Piece("word", <<w>>)

MarkerPieces ==
    {XmlDecl, SpeakOpen, SpeakClose, BreakTag, ProsodyOpen, ProsodyClose,
     EmphasisOpen, EmphasisClose, SayAsOpen, SayAsClose, POpen, PClose}

SsmlPieces ==
    MarkerPieces \cup {Word("ASR"), Word("is"), Blank, Newline}

\* <emphasis level="moderate">ASR</emphasis> is great<break time="500ms"/> really
EmphasisBreakExample ==
    <<EmphasisOpen, Word("ASR"), EmphasisClose, Blank, Word("is"), Blank,
      Word("great"), BreakTag, Blank, Word("really")>>

\* the sequences of at most n elements of S
SeqsUpTo(S, n) ==
    UNION {[1..k -> S] : k \in 0..n}

\* the text the pieces make
RECURSIVE Render(_)
Render(pieces) ==
    IF pieces = <<>> THEN <<>> ELSE Head(pieces).text \o Render(Tail(pieces))

Hyphen ==
    Piece("hyphen", <<"-">>)

NamePieces ==
    {Piece("word", <<"f","i","n","e">>), Piece("word", <<"A","S","R">>),
     Piece("word", <<"3","d">>), Hyphen, Blank}

\* fine-tuning-basics
FineTuningBasics ==
    <<Piece("word", <<"f","i","n","e">>), Hyphen,
      Piece("word", <<"t","u","n","i","n","g">>), Hyphen,
      Piece("word", <<"b","a","s","i","c","s">>)>>

\* the file name of a markdown file: the pieces and the extension
FileName(pieces) ==
    Render(pieces) \o DotMd

\* lines of a chapter's markdown: a top-level heading, a heading of the
\* second level, a "#" with nothing after it, a "#" without a space after
\* it, a line of text, an empty line
LinePieces ==
    {Piece("line", <<"#", " ", "T">>), Piece("line", <<"#", "#", " ", "s">>),
     Piece("line", <<"#">>), Piece("line", <<"#", "t">>),
     Piece("line", <<"x">>), Piece("line", <<>>)}

\* the text of the file whose lines the pieces are
Body(pieces) ==
    join(<<"\n">>, [i \in 1..Len(pieces) |-> pieces[i].text])

TextInputs ==
    {[fn |-> "strip_ssml_tags", pieces |-> ps] :
        ps \in SeqsUpTo(SsmlPieces, MaxTokens) \cup {EmphasisBreakExample}}
    \cup
    {[fn |-> "clean_title", pieces |-> ps] :
        ps \in (SeqsUpTo(NamePieces, MaxTokens) \ {<<>>}) \cup {FineTuningBasics}}
    \cup
    {[fn |-> "re_sub_heading", pieces |-> ps] : ps \in SeqsUpTo(LinePieces, MaxTokens)}

\* text = strip_ssml_tags(ssml_content)
StripCall ==
    /\ fpc = "ready"
    /\ fn_input.fn = "strip_ssml_tags"
    /\ fn_output' = Some(strip_ssml_tags(Render(fn_input.pieces)))
    /\ fpc' = "stripped"
    /\ UNCHANGED <<fn_input, fn_again>>
    /\ UNCHANGED <<rootVars, bookVars, convVars, synVars, twinVars>>

\* strip_ssml_tags called on the text it returned
StripAgainCall ==
    /\ fpc = "stripped"
    /\ fn_again' = Some(strip_ssml_tags(fn_output[1]))
    /\ fpc' = "restripped"
    /\ UNCHANGED <<fn_input, fn_output>>
    /\ UNCHANGED <<rootVars, bookVars, convVars, synVars, twinVars>>

\* title = clean_title(md_file.name)
CleanTitleCall ==
    /\ fpc = "ready"
    /\ fn_input.fn = "clean_title"
    /\ fn_output' = Some(clean_title(FileName(fn_input.pieces)))
    /\ fpc' = "titled"
    /\ UNCHANGED <<fn_input, fn_again>>
    /\ UNCHANGED <<rootVars, bookVars, convVars, synVars, twinVars>>

\* content = read_file_content(file_path), which strips the text read, and
\* content = re.sub(r'^#\s+.*$', '', content, flags=re.MULTILINE)
HeadingSubCall ==
    /\ fpc = "ready"
    /\ fn_input.fn = "re_sub_heading"
    /\ fn_output' = Some(re_sub_heading(strip(Body(fn_input.pieces))))
    /\ fpc' = "normalized"
    /\ UNCHANGED <<fn_input, fn_again>>
    /\ UNCHANGED <<rootVars, bookVars, convVars, synVars, twinVars>>

TextInit ==
    /\ notebook = {}
    /\ unreadable = {}
    /\ BookVarsInit
    /\ ConvVarsInit
    /\ SynVarsInit
    /\ fpc = "ready"
    /\ fn_input \in TextInputs
    /\ fn_output = NoneVal
    /\ fn_again = NoneVal

TextNext ==
    \/ StripCall
    \/ StripAgainCall
    \/ CleanTitleCall
    \/ HeadingSubCall

TextSpec ==
    TextInit /\ [][TextNext]_vars

(***************************************************************************)
(* Claims about the aggregator (checked under BookSpec).                   *)
(***************************************************************************)
BookBuilt ==
    bpc \in {"built", "done"}

\* the markdown files of the content root directly inside directory dir
MdFilesIn(dir) ==
    {p \in notebook : Len(p) = 2 /\ p[1] = dir /\ EndsWith(p[2], DotMd)}

\* the refs of the parts of one kind, in document order
RefsOfKind(kind) ==
    LET IsKind(x) == x.kind = kind
        sel == SelectSeq(parts, IsKind)
    IN  [i \in 1..Len(sel) |-> sel[i].ref]

\* the Topic Index keys that have at least one markdown file, in index order
NonEmptyTopics ==
    LET Has(k) == MdFilesIn(k) # {}
    IN  SelectSeq([i \in 1..Len(TOPIC_ORDER) |-> TOPIC_ORDER[i].key], Has)

Titles ==
    {TOPIC_ORDER[i].title : i \in 1..Len(TOPIC_ORDER)}

\* the topic titles the table of contents lists, in order
TocTitles ==
    LET IsTitle(a) == a \in Titles
    IN  SelectSeq(parts[1].text, IsTitle)

\* the topic header that governs position i of the document
TopicAt(i) ==
    LET hs == {j \in 1..i : parts[j].kind = "topic_header"}
    IN  IF hs = {} THEN <<>>
        ELSE parts[CHOOSE j \in hs : \A h \in hs : h <= j].ref

\* C7: in the built document the topic sections follow Topic Index order,
\* the chapters of a topic are all its markdown files in ascending filename
\* (code point) order under that topic's header, and the table of contents
\* lists the same topics in the same order.
C7_DocumentOrder ==
    BookBuilt =>
        LET chapters == RefsOfKind("chapter_header")
        IN  /\ RefsOfKind("topic_header") = NonEmptyTopics
            /\ TocTitles = [i \in 1..Len(NonEmptyTopics) |-> TopicInfo(NonEmptyTopics[i]).title]
            /\ {chapters[i] : i \in 1..Len(chapters)}
                   = UNION {MdFilesIn(k) : k \in TopicKeys}
            /\ \A i, j \in 1..Len(chapters) :
                   (i < j /\ chapters[i][1] = chapters[j][1])
                       => StrLess(chapters[i][2], chapters[j][2])
            /\ \A i \in 1..Len(parts) :
                   parts[i].kind = "chapter_header" => TopicAt(i) = parts[i].ref[1]

\* a scan enumerated two files of one topic against filename order and two
\* topics against Topic Index order, and the document was built
C7_Witness ==
    /\ BookBuilt
    /\ Len(NonEmptyTopics) >= 2
    /\ \E i, j \in 1..Len(scan_order) :
           /\ i < j
           /\ scan_order[i][1] = scan_order[j][1]
           /\ scan_order[i][1] \in TopicKeys
           /\ StrLess(scan_order[j][2], scan_order[i][2])
           /\ EndsWith(scan_order[i][2], DotMd) /\ EndsWith(scan_order[j][2], DotMd)
    /\ \E i, j \in 1..Len(scan_order) :
           /\ i < j
           /\ Len(scan_order[i]) = 2 /\ Len(scan_order[j]) = 2
           /\ scan_order[i][1] \in TopicKeys /\ scan_order[j][1] \in TopicKeys
           /\ TopicPos(scan_order[j][1]) < TopicPos(scan_order[i][1])

\* the text contains the sequence sub
Contains(text, sub) ==
    \E i \in 1..(Len(text) + 1) : StartsWithAt(text, i, sub)

\* the chapters the catalog holds, topic after topic
RECURSIVE CatalogFrom(_)
CatalogFrom(keys) ==
    IF keys = <<>> THEN <<>>
    ELSE organized_files[Head(keys)] \o CatalogFrom(Tail(keys))

\* C8: a file that cannot be read keeps its chapter header, its body is an
\* inline comment carrying the error message, and the chapters of the
\* document are still all the chapters of the catalog, each in its place
\* and followed by its body.
C8_ReadFailurePlaceholder ==
    BookBuilt =>
        /\ RefsOfKind("chapter_header") = CatalogFrom(TopicKeySeq)
        /\ \A i \in 1..Len(parts) :
               parts[i].kind = "chapter_header" =>
                   /\ i + 2 <= Len(parts)
                   /\ parts[i + 2].kind = "content"
                   /\ parts[i + 2].ref = parts[i].ref
                   /\ parts[i].ref \in unreadable =>
                          /\ parts[i + 2].text # <<>>
                          /\ Head(parts[i + 2].text) = "<!-- Error reading "
                          /\ parts[i + 2].text[Len(parts[i + 2].text)] = " -->"
                          /\ Contains(parts[i + 2].text, ErrorText(parts[i].ref))
                   /\ parts[i].ref \notin unreadable =>
                          ~Contains(parts[i + 2].text, <<"<!-- Error reading ">>)

\* the document was built from a catalog in which an unreadable file is
\* followed by a later chapter
C8_Witness ==
    /\ BookBuilt
    /\ LET chapters == RefsOfKind("chapter_header")
       IN  \E i, j \in 1..Len(chapters) :
               i < j /\ chapters[i] \in unreadable /\ chapters[j] \notin unreadable

\* C9: the catalog has exactly the Topic Index keys, a topic without
\* markdown files maps to the empty sequence, and every file of a topic's
\* sequence lies in that topic's directory (so none comes from a directory
\* outside the Topic Index).
C9_CatalogKeys ==
    bpc \in {"collected", "built", "done"} =>
        /\ DOMAIN organized_files = TopicKeys
        /\ \A k \in DOMAIN organized_files :
               /\ MdFilesIn(k) = {} => organized_files[k] = <<>>
               /\ \A i \in 1..Len(organized_files[k]) :
                      /\ organized_files[k][i] \in notebook
                      /\ organized_files[k][i][1] = k
                      /\ organized_files[k][i][1] \in TopicKeys

\* a content root with a markdown file in a directory outside the Topic
\* Index and a topic that has files was collected
C9_Witness ==
    /\ bpc = "collected"
    /\ MdFilesIn(DirDrafts) # {}
    /\ DirDrafts \notin TopicKeys
    /\ \E k \in TopicKeys : organized_files[k] # <<>>
    /\ \E k \in TopicKeys : organized_files[k] = <<>>

\* C10: a second run on the unchanged content root builds the text the
\* first run wrote, whatever the order of the two directory scans.
C10_Idempotent ==
    (run >= 2 /\ bpc = "built") => FileOf(master_content) = output_md

\* the second run built its document from a scan that enumerated the files
\* of a topic in another order than the first run's scan
C10_Witness ==
    /\ run = 2
    /\ bpc = "built"
    /\ scan_order # prev_scan
    /\ \E k \in TopicKeys : glob_md(k, scan_order) # glob_md(k, prev_scan)

(***************************************************************************)
(* Claims about the conversion and synthesis stages (checked under Spec).  *)
(***************************************************************************)
\* the manifest convert-to-ssml.py persisted in this run
ConvDone ==
    cpc = "done"

\* the statuses the stages give an item that did not succeed
FailedStatuses ==
    {"failed", "error", "conversion_failed"}

\* the `source` of the manifest's entries, in order
Sources(m) ==
    [i \in 1..Len(m.files) |-> m.files[i].source]

\* C1: a conversion run over the N discovered items persists a manifest
\* with exactly N entries, one per item in order, each success or failed.
C1_OneEntryPerItem ==
    ConvDone =>
        LET m == manifest_json[1]
        IN  /\ Len(m.files) = Len(md_files)
            /\ Sources(m) = [i \in 1..Len(md_files) |-> str_path(md_files[i])]
            /\ \A i \in 1..Len(m.files) :
                   m.files[i].status \in {"success"} \cup FailedStatuses

\* the `output` of the conversion manifest's success entries, in order
SuccessOutputs(m) ==
    LET Ok(e) == e.status = "success"
        ok == SelectSeq(m.files, Ok)
    IN  [i \in 1..Len(ok) |-> ok[i].output]

\* the synthesis run saved its individual files manifest
SynSaved ==
    spc \in {"saved", "listed", "concatenated", "done"}

\* C2: the synthesis manifest has exactly the success entries of the
\* conversion manifest it loaded as its items, whatever podcast-ssml/ holds.
C2_SynthesisFollowsManifest ==
    SynSaved =>
        LET pm == individual_json[1]
        IN  [i \in 1..Len(pm.files) |-> pm.files[i].ssml_source]
                = SuccessOutputs(manifest_json[1])

\* C3: no per-item error of the conversion stage aborts the run.
C3_NoItemErrorAborts ==
    cpc # "crashed"

\* the outcomes for which the backend made the audio
SuccessOutcomes ==
    {"returncode_0", "status_200"}

\* the entries recorded for the items ssml_files[1..n], one each and in order
EntriesFollowItems(files, n) ==
    /\ Len(files) = n
    /\ \A i \in 1..n :
        /\ files[i].ssml_source = str_path(ssml_files[i])
        /\ files[i].status \in {"success", "failed"}
        /\ files[i].status = "success"
               <=> WithSuffix(ssml_files[i], AudioSuffix(backend)) \in DOMAIN audio_dir

\* C4: in the synthesis loop every item processed so far has exactly one
\* entry, in iteration order, success when its audio was made and failed
\* otherwise; the entry of the item just processed is failed for every
\* failure the environment can produce; and the saved manifest has one
\* entry for every item of ssml_files.
C4_SynthesisFailureContinues ==
    /\ spc = "loop" =>
           /\ EntriesFollowItems(podcast_manifest.files, si - 1)
           /\ (si > 1 /\ last_outcome # "none") =>
                  /\ podcast_manifest.files[si - 1].status = "success"
                         => last_outcome \in SuccessOutcomes
                  /\ (last_outcome \notin SuccessOutcomes)
                         => podcast_manifest.files[si - 1].status = "failed"
    /\ SynSaved =>
           /\ individual_json # NoFile
           /\ EntriesFollowItems(individual_json[1].files, Len(ssml_files))

\* a manifest was saved in which a failed item is followed by a successful one
C4_Witness ==
    /\ spc = "saved"
    /\ \E i, j \in 1..Len(individual_json[1].files) :
           /\ i < j
           /\ individual_json[1].files[i].status = "failed"
           /\ individual_json[1].files[j].status = "success"

\* the absolute paths of the success entries of the saved synthesis manifest
SuccessArtifacts ==
    LET Ok(e) == e.status = "success"
        ok == SelectSeq(individual_json[1].files, Ok)
    IN  [i \in 1..Len(ok) |-> OUTPUT_DIR \o <<"/">> \o ok[i].audio_output]

\* C5: the list file, the list handed to concatenate_audio_files and the
\* list ffmpeg is run on are the output paths of the success entries of the
\* saved synthesis manifest, in manifest order.
C5_ConcatListFollowsManifest ==
    /\ spc = "listed" =>
           /\ ListedPaths(concat_list[1]) = SuccessArtifacts
           /\ [i \in 1..Len(audio_files) |-> AbsStr(audio_files[i])] = SuccessArtifacts
    /\ \A c \in 1..Len(mux_calls) : ListedPaths(mux_calls[c]) = SuccessArtifacts

\* the list file was written for a manifest with two successes and a
\* failure before the last of them
C5_Witness ==
    /\ spc = "listed"
    /\ Len(SuccessArtifacts) >= 2
    /\ \E i, j \in 1..Len(individual_json[1].files) :
           /\ i < j
           /\ individual_json[1].files[i].status = "failed"
           /\ individual_json[1].files[j].status = "success"

\* the catalog order of the content root: the topics in Topic Index order,
\* the markdown files of each in filename order
RECURSIVE CatalogOrderFrom(_)
CatalogOrderFrom(keys) ==
    IF keys = <<>> THEN <<>>
    ELSE LET Here(p) == Len(p) = 2 /\ p[1] = Head(keys) /\ EndsWith(p[2], DotMd)
             files == {p \in notebook : Here(p)}
             InOrder(f) == \A i, j \in 1..Len(f) : i < j => StrLess(f[i][2], f[j][2])
         IN  (CHOOSE f \in Enumerations(files) : InOrder(f)) \o CatalogOrderFrom(Tail(keys))

CatalogOrder ==
    CatalogOrderFrom([i \in 1..Len(TOPIC_ORDER) |-> TOPIC_ORDER[i].key])

\* C6: the source items of the conversion manifest are items of the catalog
\* and stand in catalog order.
C6_ManifestInCatalogOrder ==
    ConvDone =>
        LET src == Sources(manifest_json[1])
            cat == [i \in 1..Len(CatalogOrder) |-> str_path(CatalogOrder[i])]
            Pos(x) == CHOOSE i \in 1..Len(cat) : cat[i] = x
        IN  /\ \A i \in 1..Len(src) : \E k \in 1..Len(cat) : cat[k] = src[i]
            /\ \A i, j \in 1..Len(src) : i < j => Pos(src[i]) < Pos(src[j])

\* the conversion manifest is absent or is no JSON
ManifestUnusable ==
    manifest_json = NoFile \/ manifest_json[1] = TruncatedJson

\* C11: a synthesis run that finds the conversion manifest absent or
\* unparsable has ended before its first item: no backend call, no audio
\* file, no list file, no synthesis manifest.
C11_NoManifestNoSynthesis ==
    (spc # "idle" /\ ManifestUnusable) =>
        /\ spc \in {"exited", "crashed"}
        /\ si = 1
        /\ tts_calls = <<>>
        /\ mux_calls = <<>>
        /\ audio_dir = <<>>
        /\ individual_json = NoFile
        /\ podcast_json = NoFile
        /\ concat_list = NoFile

\* the run ended on an unparsable manifest although podcast-ssml/ held a
\* speech-markup file to synthesize
C11_Witness ==
    /\ spc = "crashed"
    /\ manifest_json = FileOf(TruncatedJson)
    /\ rglob(<<StaleSsml>>, DotSsml) # <<>>
    /\ StaleSsml \in DOMAIN ssml_dir

\* C12: when ffmpeg is absent on the host the synthesis run ends before its
\* loop: no item is synthesized.
C12_NoMuxToolNoSynthesis ==
    (spc # "idle" /\ ~ffmpeg_present) =>
        /\ spc \in {"exited", "crashed"}
        /\ si = 1
        /\ tts_calls = <<>>
        /\ audio_dir = <<>>

\* the status of every entry of the saved synthesis manifest is failed
NoItemSucceeded ==
    \A i \in 1..Len(individual_json[1].files) : individual_json[1].files[i].status = "failed"

\* C13: concatenate_audio_files is entered only after an item succeeded in
\* this run; when every item failed the run goes from the saved manifest
\* to its end with no list file, no ffmpeg call, no combined file and no
\* final manifest.
C13_ConcatenationNeedsSuccess ==
    /\ (spc \in {"listed", "concatenated"} \/ mux_calls # <<>> \/ concat_list # NoFile)
           => (SynSaved /\ ~NoItemSucceeded /\ audio_files # <<>>)
    /\ (SynSaved /\ NoItemSucceeded) =>
           /\ spc \in {"saved", "done"}
           /\ mux_calls = <<>>
           /\ concat_list = NoFile
           /\ full_podcast = NoFile
           /\ podcast_json = NoFile

\* a run asked to concatenate, every item of which failed, has ended
C13_Witness ==
    /\ spc = "done"
    /\ concatenate
    /\ Len(individual_json[1].files) >= 1
    /\ NoItemSucceeded
    /\ last_outcome = "none"

\* concatenate_audio_files has returned in this run
ConcatReturned ==
    \/ spc = "concatenated"
    \/ spc = "done" /\ ConcatenationDue(concatenate, audio_files)

\* C14: once concatenate_audio_files has returned, on whichever path,
\* concat_list.txt does not exist.
C14_ListFileRemoved ==
    ConcatReturned => concat_list = NoFile

\* concatenate_audio_files returned False after ffmpeg had run on a list
\* file that was written
C14_Witness ==
    /\ spc = "done"
    /\ mux_calls # <<>>
    /\ last_outcome \in {"returncode_nonzero", "exception"}
    /\ full_podcast = NoFile

\* C15: the text either backend is called with is the stripped text of the
\* item's speech-markup file, so it is the same for both backends and
\* holds no markup marker.
C15_BackendsGetStrippedText ==
    \A c \in 1..Len(tts_calls) :
        \E f \in DOMAIN ssml_dir :
            /\ str_path(f) = tts_calls[c].item
            /\ tts_calls[c].text = strip_ssml_tags(ssml_dir[f])
            /\ ~IsIn("<", tts_calls[c].text)

(***************************************************************************)
(* Claims about strip_ssml_tags and clean_title (checked under TextSpec).  *)
(***************************************************************************)
\* the words of a text made of pieces: what stands between its blanks, its
\* break tags and its paragraph tags, the other tags left out
RECURSIVE WordsFrom(_, _)
WordsFrom(pieces, word) ==
    LET done == IF word = <<>> THEN <<>> ELSE <<word>>
    IN  IF pieces = <<>> THEN done
        ELSE IF Head(pieces).kind = "word"
             THEN WordsFrom(Tail(pieces), word \o Head(pieces).text)
        ELSE IF Head(pieces).kind \in {"space", "break", "para"}
             THEN done \o WordsFrom(Tail(pieces), <<>>)
        ELSE WordsFrom(Tail(pieces), word)

WordsOf(pieces) ==
    WordsFrom(pieces, <<>>)

StripReturned ==
    fpc \in {"stripped", "restripped"}

\* C16: for a text made of words, blanks and the recognized tags,
\* strip_ssml_tags returns the words in order with one space between them
\* and none around them, and nothing of a tag; the emphasis/break example
\* gives "ASR is great really".
C16_StripKeepsWords ==
    StripReturned =>
        /\ fn_output[1] = join(<<" ">>, WordsOf(fn_input.pieces))
        /\ ~IsIn("<", fn_output[1])
        /\ ~IsIn(">", fn_output[1])
        /\ fn_input.pieces = EmphasisBreakExample
               => fn_output[1] = <<"ASR", " ", "is", " ", "great", " ", "really">>

\* strip_ssml_tags returned for a text in which a break tag alone stands
\* between two words
C16_Witness ==
    /\ fpc = "stripped"
    /\ fn_input.pieces = <<Word("ASR"), BreakTag, Word("is")>>
    /\ fn_output[1] = <<"ASR", " ", "is">>

\* the text holds no tag
PlainInput ==
    /\ fn_input.fn = "strip_ssml_tags"
    /\ \A i \in 1..Len(fn_input.pieces) : fn_input.pieces[i].kind \in {"word", "space"}

\* single spaces between the words, no other whitespace
Normalized(text) ==
    /\ \A i \in 1..Len(text) : IsSpace(text[i]) => text[i] = " "
    /\ \A i \in 1..Len(text) :
           text[i] = " " => (1 < i /\ i < Len(text) /\ text[i + 1] # " ")

\* C17: on a text without tags strip_ssml_tags applied to its own result
\* returns that result, and on such a text that is whitespace-normalized
\* it returns the text.
C17_StripIdempotentOnPlain ==
    (fpc = "restripped" /\ PlainInput) =>
        /\ fn_again = fn_output
        /\ Normalized(Render(fn_input.pieces)) => fn_output[1] = Render(fn_input.pieces)

\* both calls were made on a normalized text of two words
C17_Witness ==
    /\ fpc = "restripped"
    /\ PlainInput
    /\ fn_input.pieces = <<Word("ASR"), Blank, Word("is")>>
    /\ fn_again[1] = <<"ASR", " ", "is">>

\* the first letter upper-cased, the others as they are
CapitalizeFirst(w) ==
    [i \in 1..Len(w) |-> IF i = 1 THEN upper(w[i]) ELSE w[i]]

\* the title of the claim for the file name made of the pieces and ".md"
TitleOf(pieces) ==
    LET words == split(replace(Render(pieces), <<"-">>, <<" ">>))
    IN  join(<<" ">>, [i \in 1..Len(words) |-> CapitalizeFirst(words[i])])

\* C18: clean_title returns the file name without its extension, hyphens
\* turned to spaces, split on whitespace, each word with its first letter
\* capitalized and its other letters unchanged, joined by single spaces.
C18_TitleDerivation ==
    fpc = "titled" => fn_output[1] = TitleOf(fn_input.pieces)

\* an entry has an output path exactly when its status is success
OutputIffSuccess(files, field) ==
    \A i \in 1..Len(files) :
        (field \in DOMAIN files[i]) <=> (files[i].status = "success")

\* C19: in the manifest the conversion stage saves and in the manifest the
\* synthesis stage saves, an entry has an output path if and only if its
\* status is success.
C19_OutputPathOnlyOnSuccess ==
    /\ ConvDone => OutputIffSuccess(manifest_json[1].files, "output")
    /\ SynSaved => OutputIffSuccess(individual_json[1].files, "audio_output")

\* the source and the status of the entries, in order
SourceAndStatus(files) ==
    [i \in 1..Len(files) |-> <<files[i].ssml_source, files[i].status>>]

\* the items whose audio files are to be concatenated, in order
ItemsOf(files) ==
    [i \in 1..Len(files) |-> WithSuffix(files[i], DotSsml)]

\* C20: the two scripts run on the same podcast-ssml/, their services
\* succeeding and failing on the same items, record the same items with the
\* same statuses and concatenate the same items in the same order.
C20_BackendsEquivalent ==
    SynSaved =>
        /\ SourceAndStatus(individual_json[1].files) = SourceAndStatus(twin_manifest.files)
        /\ ItemsOf(audio_files) = ItemsOf(twin_audio_files)

(***************************************************************************)
(* Further claims about the aggregator (checked under BookSpec).           *)
(***************************************************************************)
\* the two lines the table of contents has for a topic with n chapters
TocEntry(k, n) ==
    <<"*", "*", TopicInfo(k).title, "*", "*", " ", " ", "\n",
      TopicInfo(k).description, " ", "(">> \o str_int(n) \o <<" ", "chapters", ")", "\n">>

\* the table of contents lists the topic
InToc(k) ==
    IsIn(TopicInfo(k).title, parts[1].text)

\* the body has a section for the topic
InBody(k) ==
    \E i \in 2..Len(parts) : parts[i].kind = "topic_header" /\ parts[i].ref = k

\* C21: a topic is listed in the table of contents exactly when the body
\* has its section and exactly when the catalog has chapters for it, and
\* the chapter count of a listed topic is the number of its chapters.
C21_TopicListedIffNonEmpty ==
    BookBuilt =>
        \A k \in TopicKeys :
            /\ InToc(k) <=> InBody(k)
            /\ InToc(k) <=> organized_files[k] # <<>>
            /\ InToc(k) => Contains(parts[1].text, TocEntry(k, Len(organized_files[k])))

\* the document was built from a content root in which one topic directory
\* holds no markdown file and another holds one
C21_Witness ==
    /\ BookBuilt
    /\ \E k \in TopicKeys : is_dir(k) /\ organized_files[k] = <<>> /\ ~InToc(k)
    /\ \E k \in TopicKeys : Len(organized_files[k]) = 1 /\ InToc(k) /\ InBody(k)

\* the lines of a text
RECURSIVE LinesOf(_)
LinesOf(text) ==
    LET e == LineEnd(text, 1)
    IN  IF e > Len(text) THEN <<text>>
        ELSE <<SubSeq(text, 1, e - 1)>> \o LinesOf(SubSeq(text, e + 1, Len(text)))

\* the line begins with a single "#" marker: a "#" and a blank after it
SingleHashLine(line) ==
    Len(line) >= 2 /\ line[1] = "#" /\ line[2] \in {" ", "\t"}

\* the text with the lines that begin with a single "#" marker emptied and
\* every other line as it is
HeadingsEmptied(text) ==
    LET ls == LinesOf(text)
    IN  join(<<"\n">>, [i \in 1..Len(ls) |-> IF SingleHashLine(ls[i]) THEN <<>> ELSE ls[i]])

\* C22: the heading normalization empties exactly the lines of the body
\* that begin with a single "#" marker and leaves every other line as it
\* is, the line after a removed heading and the lines that begin with "##"
\* included.
C22_HeadingLinesOnly ==
    fpc = "normalized" =>
        fn_output[1] = HeadingsEmptied(strip(Body(fn_input.pieces)))

(***************************************************************************)
(* Further claims about the synthesis stage (checked under Spec).          *)
(***************************************************************************)
\* the number of success entries of a synthesis manifest
SuccessCount(m) ==
    Cardinality({i \in 1..Len(m.files) : m.files[i].status = "success"})

\* ffmpeg was run in this run and returned 0
ConcatSucceeded ==
    /\ mux_calls # <<>>
    /\ last_outcome = "returncode_0"
    /\ full_podcast # NoFile

\* C23: a manifest the synthesis run saved holds the full_podcast record
\* exactly when concatenate_audio_files was called and returned True; the
\* record's track count is the number of success entries of that manifest;
\* the individual files manifest never holds the record.
C23_FullPodcastRecordIffConcatenated ==
    /\ individual_json # NoFile => "full_podcast" \notin DOMAIN individual_json[1]
    /\ podcast_json # NoFile =>
           /\ ConcatSucceeded
           /\ "full_podcast" \in DOMAIN podcast_json[1]
           /\ podcast_json[1].full_podcast.track_count = SuccessCount(podcast_json[1])
           /\ podcast_json[1].files = individual_json[1].files
    /\ spc = "done" => (podcast_json # NoFile <=> ConcatSucceeded)

\* the final manifest was saved with its record after a run in which an
\* item failed and another succeeded
C23_Witness ==
    /\ spc = "done"
    /\ podcast_json # NoFile
    /\ podcast_json[1].full_podcast.track_count = 1
    /\ Len(podcast_json[1].files) = 2

\* the failures of a requests.post that convert_to_ssml catches
LlmCallFailures ==
    {"connection_error", "timeout", "http_error", "malformed_json"}

\* the failures of a backend call that was made
TtsCallFailures ==
    {"returncode_nonzero", "timeout", "exception", "request_exception", "status_other",
     "write_error"}

ConcatInvoked ==
    \/ spc = "saved" /\ ConcatenationDue(concatenate, audio_files)
    \/ spc = "listed"

\* individual-files-manifest.json holds the manifest of the finished loop,
\* one entry for every item
IndividualManifestOnDisk ==
    /\ individual_json # NoFile
    /\ individual_json[1] = podcast_manifest
    /\ si > Len(ssml_files)
    /\ EntriesFollowItems(individual_json[1].files, Len(ssml_files))

\* C25: whenever concatenate_audio_files is invoked the individual files
\* manifest of the finished loop is already on disk, and no step of the
\* concatenation, failing or not, changes that file or the per-item audio
\* files.
C25_ManifestSavedBeforeConcatenation ==
    [][/\ ConcatInvoked' => IndividualManifestOnDisk'
       /\ ConcatInvoked =>
              /\ individual_json' = individual_json
              /\ audio_dir' = audio_dir]_vars

\* a concatenation over at least one audio file failed, and the individual
\* files manifest and the audio files are there
C25_Witness ==
    /\ spc = "done"
    /\ ConcatenationDue(concatenate, audio_files)
    /\ last_outcome \in {"list_write_error", "returncode_nonzero", "exception"}
    /\ individual_json # NoFile
    /\ DOMAIN audio_dir # {}
    /\ podcast_json = NoFile

\* the items the synthesis loop has gone through
ItemsDone ==
    IF spc \in {"loop", "saved", "listed", "concatenated", "done"}
    THEN 1..(si - 1) ELSE {}

\* item i of ssml_files holds nothing but markup
StripsToNothing(i) ==
    strip_ssml_tags(ssml_dir[ssml_files[i]]) = <<>>

\* C26: with the Kokoro backend an item whose file strips to the empty text
\* has a failed entry, no call to the backend was made for it and no audio
\* file exists for it; the loop went on, so that every item gone through
\* has its entry and the run ends with one entry for every item.
C26_EmptyTextFailsWithoutCall ==
    backend = "kokoro" =>
        /\ Len(podcast_manifest.files) = Cardinality(ItemsDone)
        /\ SynSaved => Cardinality(ItemsDone) = Len(ssml_files)
        /\ \A i \in ItemsDone :
               StripsToNothing(i) =>
                   /\ podcast_manifest.files[i].ssml_source = str_path(ssml_files[i])
                   /\ podcast_manifest.files[i].status = "failed"
                   /\ \A c \in 1..Len(tts_calls) :
                          tts_calls[c].item # str_path(ssml_files[i])
                   /\ WithSuffix(ssml_files[i], AudioSuffix(backend)) \notin DOMAIN audio_dir
                   /\ \A a \in 1..Len(audio_files) :
                          audio_files[a] # WithSuffix(ssml_files[i], AudioSuffix(backend))

\* a Kokoro run went through an item that strips to nothing and then made
\* the audio of the item after it
C26_Witness ==
    /\ backend = "kokoro"
    /\ spc = "loop"
    /\ \E i \in ItemsDone :
        /\ StripsToNothing(i)
        /\ ssml_dir[ssml_files[i]] # <<>>
        /\ i + 1 \in ItemsDone
        /\ podcast_manifest.files[i + 1].status = "success"

====
